---- MODULE Spec2Model ----
(***************************************************************************)
(* State-machine model of clockbutler's Butler (src/main.py): the in-memory *)
(* script navigator (script_list, current_position, favorite_dict) and the  *)
(* three asyncio tasks main() starts in one TaskGroup (mqtt_listener,       *)
(* gpi_listener, clock_worker), interleaved at their await points.          *)
(***************************************************************************)
EXTENDS Integers, Sequences, FiniteSets, TLC

\* ------------------------------------------------------------------ bounds
\* Longest JSON array handed to set_scripts by the navigator specification.
MaxLen == 3
\* Capacity of the client's inbound message queue in the task specification.
MaxQueue == 1

Names == {"a", "b"}
Slots == {1, 2}

RECURSIVE SeqsUpTo(_)
SeqsUpTo(n) ==
  IF n = 0 THEN {<< >>}
  ELSE LET shorter == SeqsUpTo(n - 1)
       IN  shorter \cup {Append(s, x) : s \in {t \in shorter : Len(t) = n - 1}, x \in Names}

\* ------------------------------------------------------- Python values
\* current_position is None or an int.
None == [none |-> TRUE, val |-> 0]
Some(n) == [none |-> FALSE, val |-> n]

\* A value json.loads can return: its Python type and, for the sized types,
\* its elements (list), characters (str) or keys (dict).
PyVal(kind, items) == [kind |-> kind, items |-> items]
EmptyList == PyVal("list", << >>)

\* A message payload as text: the JSON value it spells, or "invalid" for text
\* that is not JSON (items then holds the words of the text).
Payload(json, items) == [json |-> json, items |-> items]
Text(w) == Payload("invalid", <<w>>)

\* json.loads: raises on text that is not JSON, otherwise maps the JSON
\* value kind to the Python type.
json_loads(names) ==
  IF names.json = "invalid" THEN [exc |-> "JSONDecodeError", val |-> EmptyList]
  ELSE [exc |-> "",
        val |-> PyVal(CASE names.json = "array"  -> "list"
                        [] names.json = "string" -> "str"
                        [] names.json = "object" -> "dict"
                        [] names.json = "number" -> "int"
                        [] names.json = "null"   -> "NoneType",
                      names.items)]

\* len(x): TypeError for the types without a length.
len(x) ==
  IF x.kind \in {"list", "str", "dict"} THEN [exc |-> "", val |-> Len(x.items)]
  ELSE [exc |-> "TypeError", val |-> 0]

\* x[i] for an int i: Python sequences accept -len <= i < len (negative
\* counts from the end); a dict with string keys has no int key.
getitem(x, i) ==
  CASE x.kind \in {"list", "str"} ->
         IF i >= 0 /\ i < Len(x.items) THEN [exc |-> "", ret |-> <<x.items[i + 1]>>]
         ELSE IF i < 0 /\ i >= -Len(x.items)
              THEN [exc |-> "", ret |-> <<x.items[Len(x.items) + i + 1]>>]
              ELSE [exc |-> "IndexError", ret |-> << >>]
    [] x.kind = "dict" -> [exc |-> "KeyError", ret |-> << >>]
    [] OTHER -> [exc |-> "TypeError", ret |-> << >>]

\* ------------------------------------------------------- Butler methods
\* Each method as a function of the fields it reads: the fields after the
\* call, the exception it raised ("" for none), and its return value
\* (<< >> is None, <<x>> is x).

set_scripts_clear_on_error(sl, cp, names) ==
  LET r == json_loads(names) IN
  IF r.exc # "" THEN [script_list |-> EmptyList, current_position |-> None, logged |-> TRUE]
  ELSE LET l == len(r.val) IN
       IF l.exc # "" THEN [script_list |-> r.val, current_position |-> cp, logged |-> TRUE]
       ELSE [script_list |-> r.val,
             current_position |-> IF l.val > 0 THEN Some(0) ELSE cp,
             logged |-> FALSE]

set_scripts(sl, cp, names) ==
  LET r == json_loads(names) IN
  IF r.exc # "" THEN [script_list |-> sl, current_position |-> cp, logged |-> TRUE]
  ELSE LET l == len(r.val) IN
       IF l.exc # "" THEN [script_list |-> r.val, current_position |-> cp, logged |-> TRUE]
       ELSE [script_list |-> r.val,
             current_position |-> IF l.val > 0 THEN Some(0) ELSE cp,
             logged |-> FALSE]

inc_current_off_by_one(sl, cp) ==
  LET l == len(sl) IN
  IF l.exc # "" \/ cp.none THEN [exc |-> "TypeError", current_position |-> cp]
  ELSE IF cp.val <= l.val - 1
       THEN [exc |-> "", current_position |-> Some(cp.val + 1)]
       ELSE [exc |-> "", current_position |-> Some(0)]

inc_current(sl, cp) ==
  LET l == len(sl) IN
  IF l.exc # "" \/ cp.none THEN [exc |-> "TypeError", current_position |-> cp]
  ELSE IF cp.val < l.val - 1
       THEN [exc |-> "", current_position |-> Some(cp.val + 1)]
       ELSE [exc |-> "", current_position |-> Some(0)]

dec_current_no_wrap(sl, cp) ==
  IF cp.none THEN [exc |-> "TypeError", current_position |-> cp]
  ELSE IF cp.val > 0
       THEN [exc |-> "", current_position |-> Some(cp.val - 1)]
       ELSE LET l == len(sl) IN
            IF l.exc # "" THEN [exc |-> "TypeError", current_position |-> cp]
            ELSE [exc |-> "", current_position |-> Some(0)]

dec_current(sl, cp) ==
  IF cp.none THEN [exc |-> "TypeError", current_position |-> cp]
  ELSE IF cp.val > 0
       THEN [exc |-> "", current_position |-> Some(cp.val - 1)]
       ELSE LET l == len(sl) IN
            IF l.exc # "" THEN [exc |-> "TypeError", current_position |-> cp]
            ELSE [exc |-> "", current_position |-> Some(l.val - 1)]

get_current(sl, cp) ==
  IF cp.none THEN [exc |-> "", ret |-> << >>]
  ELSE getitem(sl, cp.val)

\* `if self.current_position:` is false for None and for 0.
set_favorite(fav, cp, index) ==
  IF ~cp.none /\ cp.val # 0
  THEN [k \in DOMAIN fav \cup {index} |-> IF k = index THEN cp.val ELSE fav[k]]
  ELSE fav

get_favorite(fav, sl, index) ==
  IF index \in DOMAIN fav THEN getitem(sl, fav[index])
  ELSE [exc |-> "", ret |-> << >>]

\* ------------------------------------------------------------------ state
VARIABLES
  script_list,       \* Butler.script_list
  current_position,  \* Butler.current_position
  favorite_dict,     \* Butler.favorite_dict
  mqtt_client,       \* Butler.mqtt_client: "None" or "client"
  pc,                \* where each task of the TaskGroup is suspended
  exc,               \* the exception that ended each task ("" for none)
  connected,         \* the client's transport to the broker is up
  subscribed,        \* the broker holds the client's prefix/# subscription
  inbox,             \* client.messages: inbound messages not yet iterated
  handling,          \* the message whose handler mqtt_listener is inside
  playing,           \* tasks with an aplay subprocess in flight
  cache,             \* speech texts with a .wav file in speech_path
  event,             \* how mqtt_listener dispatched the last message it took and
                     \* how the handler's code before its first await ended
  last,              \* navigator specification: the last method call
  incs               \* navigator specification: inc_current calls since the
                     \* last set_scripts of a non-empty array (-1: not tracked)

nav_vars == <<script_list, current_position, favorite_dict>>
task_vars == <<mqtt_client, pc, exc, connected, subscribed, inbox, handling,
               playing, cache, event>>
task_vars_but_inbox == <<mqtt_client, pc, exc, connected, subscribed, handling,
                        playing, cache>>
vars == <<script_list, current_position, favorite_dict, mqtt_client, pc, exc,
          connected, subscribed, inbox, handling, playing, cache, event, last, incs>>

Tasks == {"mqtt", "gpi", "clock"}
NoFavorites == [k \in {} |-> 0]
NoCall == [op |-> "", index |-> 0, exc |-> "", ret |-> << >>]
Call(op, index, e, ret) == [op |-> op, index |-> index, exc |-> e, ret |-> ret]

\* Butler.__init__ followed by main() creating the three tasks.
Init ==
  /\ script_list = EmptyList
  /\ current_position = None
  /\ favorite_dict = NoFavorites
  /\ mqtt_client = "None"
  /\ pc = [t \in Tasks |-> "created"]
  /\ exc = [t \in Tasks |-> ""]
  /\ connected = FALSE
  /\ subscribed = FALSE
  /\ inbox = << >>
  /\ handling = << >>
  /\ playing = {}
  /\ cache = {}
  /\ event = ""
  /\ last = NoCall
  /\ incs = -1

\* ------------------------------------------- navigator specification
\* The navigator methods called in any order with any argument.
NavPayloads ==
  {Payload("array", s) : s \in SeqsUpTo(MaxLen)}
    \cup {Text("a"), Payload("null", << >>), Payload("number", << >>),
          Payload("string", <<"a", "b">>), Payload("object", <<"a">>)}

IsArrayOfNames(names) == names.json = "array" /\ Len(names.items) >= 1

NavSetScripts(names) ==
  LET r == set_scripts(script_list, current_position, names) IN
  /\ script_list' = r.script_list
  /\ current_position' = r.current_position
  /\ last' = Call("set_scripts", 0, IF r.logged THEN "logged" ELSE "", << >>)
  /\ incs' = IF IsArrayOfNames(names) THEN 0 ELSE -1
  /\ UNCHANGED <<favorite_dict, task_vars>>

NavIncCurrent ==
  LET r == inc_current(script_list, current_position) IN
  /\ current_position' = r.current_position
  /\ last' = Call("inc_current", 0, r.exc, << >>)
  /\ incs' = IF incs >= 0 /\ incs < MaxLen /\ r.exc = "" THEN incs + 1 ELSE -1
  /\ UNCHANGED <<script_list, favorite_dict, task_vars>>

NavDecCurrent ==
  LET r == dec_current(script_list, current_position) IN
  /\ current_position' = r.current_position
  /\ last' = Call("dec_current", 0, r.exc, << >>)
  /\ incs' = -1
  /\ UNCHANGED <<script_list, favorite_dict, task_vars>>

NavGetCurrent ==
  LET r == get_current(script_list, current_position) IN
  /\ last' = Call("get_current", 0, r.exc, r.ret)
  /\ UNCHANGED <<nav_vars, incs, task_vars>>

NavSetFavorite(index) ==
  /\ favorite_dict' = set_favorite(favorite_dict, current_position, index)
  /\ last' = Call("set_favorite", index, "", << >>)
  /\ UNCHANGED <<script_list, current_position, incs, task_vars>>

NavGetFavorite(index) ==
  LET r == get_favorite(favorite_dict, script_list, index) IN
  /\ last' = Call("get_favorite", index, r.exc, r.ret)
  /\ UNCHANGED <<nav_vars, incs, task_vars>>

NavNext ==
  \/ \E names \in NavPayloads : NavSetScripts(names)
  \/ NavIncCurrent
  \/ NavDecCurrent
  \/ NavGetCurrent
  \/ \E index \in Slots : NavSetFavorite(index)
  \/ \E index \in Slots : NavGetFavorite(index)

NavSpec == Init /\ [][NavNext]_vars

\* ------------------------------------------------------ task specification
\* The three tasks of main()'s TaskGroup under asyncio's cooperative
\* scheduling: each action is the code a task runs between two awaits.
Msg(suffix, payload, utf8) == [suffix |-> suffix, payload |-> payload, utf8 |-> utf8]

\* Messages other clients publish under the prefix. The last one carries
\* bytes that are not UTF-8.
BusMessages ==
  {Msg("say", Text(w), TRUE) : w \in Names}
    \cup {Msg("volume", Payload("number", << >>), TRUE),
          Msg("play", Text("a"), TRUE),
          Msg("other", Text("a"), TRUE),
          Msg("say", Text("a"), FALSE)}
    \cup {Msg("scripts", p, TRUE) :
            p \in {Text("a"), Payload("null", << >>), Payload("array", << >>),
                   Payload("array", <<"a">>), Payload("array", <<"a", "b">>)}}

ButtonPressed == Msg("action", Text("button pressed"), TRUE)

Alive == \A t \in Tasks : pc[t] \notin {"failed", "cancelled"}
Goto(t, where) == pc' = [pc EXCEPT ![t] = where]
Raise(t, e) ==
  /\ pc' = [pc EXCEPT ![t] = "failed"]
  /\ exc' = [exc EXCEPT ![t] = e]

\* --- the broker and the transport (environment)
BrokerPublish(m) ==
  /\ Alive /\ connected /\ subscribed
  /\ Len(inbox) < MaxQueue
  /\ inbox' = Append(inbox, m)
  /\ UNCHANGED <<nav_vars, mqtt_client, pc, exc, connected, subscribed, handling,
                 playing, cache, event, last, incs>>

TransportError ==
  /\ Alive /\ connected
  /\ connected' = FALSE
  /\ subscribed' = FALSE
  /\ UNCHANGED <<nav_vars, mqtt_client, pc, exc, inbox, handling, playing, cache,
                 event, last, incs>>

\* --- mqtt_listener
\* Lines 89-93: up to the await inside `async with aiomqtt.Client(host)`.
MqttStart ==
  /\ Alive /\ pc["mqtt"] = "created"
  /\ Goto("mqtt", "connecting")
  /\ UNCHANGED <<nav_vars, mqtt_client, exc, connected, subscribed, inbox, handling,
                 playing, cache, event, last, incs>>

\* Lines 93-95: the client connected; store it and await subscribe.
MqttConnectOk ==
  /\ Alive /\ pc["mqtt"] = "connecting"
  /\ connected' = TRUE
  /\ mqtt_client' = "client"
  /\ Goto("mqtt", "subscribing")
  /\ UNCHANGED <<nav_vars, exc, subscribed, inbox, handling, playing, cache, event, last, incs>>

\* Line 93: connecting raises MqttError, outside any try.
MqttConnectError ==
  /\ Alive /\ pc["mqtt"] = "connecting"
  /\ Raise("mqtt", "MqttError")
  /\ UNCHANGED <<nav_vars, mqtt_client, connected, subscribed, inbox, handling,
                 playing, cache, event, last, incs>>

\* Lines 95-99: subscribed to prefix/#; enter the message loop.
MqttSubscribeOk ==
  /\ Alive /\ pc["mqtt"] = "subscribing" /\ connected
  /\ subscribed' = TRUE
  /\ Goto("mqtt", "messages")
  /\ UNCHANGED <<nav_vars, mqtt_client, exc, connected, inbox, handling, playing,
                 cache, event, last, incs>>

\* Line 95: subscribe raises MqttError (transport lost), outside any try.
MqttSubscribeError ==
  /\ Alive /\ pc["mqtt"] = "subscribing" /\ ~connected
  /\ Raise("mqtt", "MqttError")
  /\ UNCHANGED <<nav_vars, mqtt_client, connected, subscribed, inbox, handling,
                 playing, cache, event, last, incs>>

AtMessage_while_handling(suffix) ==
  /\ Alive /\ pc["mqtt"] \in {"messages", "aplay_spawn", "aplay_wait"}
  /\ inbox # << >>
  /\ Head(inbox).utf8
  /\ Head(inbox).suffix = suffix

AtMessage(suffix) ==
  /\ Alive /\ pc["mqtt"] = "messages"
  /\ inbox # << >>
  /\ Head(inbox).utf8
  /\ Head(inbox).suffix = suffix

\* Line 100: message.payload.decode() raises UnicodeDecodeError, which the
\* `except aiomqtt.MqttError` of line 107 does not catch.
MqttDecodeError ==
  /\ Alive /\ pc["mqtt"] = "messages"
  /\ inbox # << >> /\ ~Head(inbox).utf8
  /\ inbox' = Tail(inbox)
  /\ Raise("mqtt", "UnicodeDecodeError")
  /\ UNCHANGED <<nav_vars, mqtt_client, connected, subscribed, handling, playing,
                 cache, event, last, incs>>

MqttSay_always_synthesize ==
  /\ AtMessage("say")
  /\ inbox' = Tail(inbox)
  /\ LET speech == Head(inbox).payload IN
       \E outcome \in {"load_error", "open_error", "render_error", "ok"} :
         /\ cache' = IF outcome \in {"render_error", "ok"}
                     THEN cache \cup {speech} ELSE cache
         /\ event' = IF outcome = "ok" THEN "say_synth" ELSE "say_error"
         /\ IF outcome = "ok"
            THEN handling' = <<Head(inbox)>> /\ Goto("mqtt", "aplay_spawn")
            ELSE UNCHANGED <<handling, pc>>
  /\ UNCHANGED <<nav_vars, mqtt_client, exc, connected, subscribed, playing, last, incs>>

\* Lines 102, 151-163: say, up to the await of aplay's subprocess creation.
\* On a cache miss the voice is loaded, the file opened for writing and the
\* speech rendered, all without an await; each may raise, and the handler's
\* `except Exception` then returns to the message loop.
MqttSay ==
  /\ AtMessage("say")
  /\ inbox' = Tail(inbox)
  /\ LET speech == Head(inbox).payload IN
     \/ /\ speech \in cache
        /\ handling' = <<Head(inbox)>>
        /\ Goto("mqtt", "aplay_spawn")
        /\ event' = "say_hit"
        /\ UNCHANGED cache
     \/ /\ speech \notin cache
        /\ \E outcome \in {"load_error", "open_error", "render_error", "ok"} :
             /\ cache' = IF outcome \in {"render_error", "ok"}
                         THEN cache \cup {speech} ELSE cache
             /\ event' = IF outcome = "ok" THEN "say_synth" ELSE "say_error"
             /\ IF outcome = "ok"
                THEN handling' = <<Head(inbox)>> /\ Goto("mqtt", "aplay_spawn")
                ELSE UNCHANGED <<handling, pc>>
  /\ UNCHANGED <<nav_vars, mqtt_client, exc, connected, subscribed, playing, last, incs>>

\* Lines 103, 122-129: volume, up to the await of amixer's creation.
MqttVolume ==
  /\ AtMessage("volume")
  /\ inbox' = Tail(inbox)
  /\ handling' = <<Head(inbox)>>
  /\ Goto("mqtt", "amixer_spawn")
  /\ event' = "volume"
  /\ UNCHANGED <<nav_vars, mqtt_client, exc, connected, subscribed, playing, cache,
                 last, incs>>

\* Lines 125-130: amixer was created (await communicate), or creating it
\* raised and line 139 caught it.
MqttAmixerSpawn ==
  /\ Alive /\ pc["mqtt"] = "amixer_spawn"
  /\ \E created \in BOOLEAN :
       IF created THEN Goto("mqtt", "amixer_wait") /\ UNCHANGED handling
       ELSE Goto("mqtt", "messages") /\ handling' = << >>
  /\ UNCHANGED <<nav_vars, mqtt_client, exc, connected, subscribed, inbox, playing,
                 cache, event, last, incs>>

\* Lines 130-140: amixer exited. With return code 0 line 135 reads the
\* undefined name `path`: NameError, caught by line 139, so no beep is
\* played; with any other code the error is logged.
MqttAmixerExit ==
  /\ Alive /\ pc["mqtt"] = "amixer_wait"
  /\ Goto("mqtt", "messages")
  /\ handling' = << >>
  /\ UNCHANGED <<nav_vars, mqtt_client, exc, connected, subscribed, inbox, playing,
                 cache, event, last, incs>>

\* Lines 104, 142-146: play, up to the await of aplay's subprocess creation.
MqttPlay ==
  /\ AtMessage("play")
  /\ inbox' = Tail(inbox)
  /\ handling' = <<Head(inbox)>>
  /\ Goto("mqtt", "aplay_spawn")
  /\ event' = "play"
  /\ UNCHANGED <<nav_vars, mqtt_client, exc, connected, subscribed, playing, cache,
                 last, incs>>

\* Lines 105, 40-46: scripts runs set_scripts, which has no await.
MqttScripts ==
  /\ AtMessage("scripts")
  /\ inbox' = Tail(inbox)
  /\ LET r == set_scripts(script_list, current_position, Head(inbox).payload) IN
       /\ script_list' = r.script_list
       /\ current_position' = r.current_position
       /\ event' = IF r.logged THEN "scripts_error" ELSE "scripts"
  /\ UNCHANGED <<favorite_dict, task_vars_but_inbox, last, incs>>

MqttIgnore_plays ==
  /\ Alive /\ pc["mqtt"] = "messages"
  /\ inbox # << >> /\ Head(inbox).utf8
  /\ Head(inbox).suffix \notin {"say", "volume", "play", "scripts"}
  /\ inbox' = Tail(inbox)
  /\ handling' = <<Head(inbox)>>
  /\ Goto("mqtt", "aplay_spawn")
  /\ event' = "play"
  /\ UNCHANGED <<nav_vars, mqtt_client, exc, connected, subscribed, playing, cache,
                 last, incs>>

\* Lines 102-105: no `if` matches the topic.
MqttIgnore ==
  /\ Alive /\ pc["mqtt"] = "messages"
  /\ inbox # << >> /\ Head(inbox).utf8
  /\ Head(inbox).suffix \notin {"say", "volume", "play", "scripts"}
  /\ inbox' = Tail(inbox)
  /\ event' = "none"
  /\ UNCHANGED <<nav_vars, task_vars_but_inbox, last, incs>>

\* Lines 99, 107-109: iterating client.messages raises MqttError on a lost
\* transport; the handler logs and sleeps `interval`.
MqttDisconnected ==
  /\ Alive /\ pc["mqtt"] = "messages" /\ ~connected
  /\ Goto("mqtt", "backoff")
  /\ UNCHANGED <<nav_vars, mqtt_client, exc, connected, subscribed, inbox, handling,
                 playing, cache, event, last, incs>>

\* Lines 109, 97-99: the sleep is over; `while True` iterates the same
\* client's messages again.
MqttBackoffDone ==
  /\ Alive /\ pc["mqtt"] = "backoff"
  /\ Goto("mqtt", "messages")
  /\ UNCHANGED <<nav_vars, mqtt_client, exc, connected, subscribed, inbox, handling,
                 playing, cache, event, last, incs>>

\* --- aplay (lines 168-184), run by task t
\* Lines 172-177: the subprocess was created (await communicate), or
\* creating it raised and line 183 caught it.
AplaySpawn(t) ==
  /\ Alive /\ pc[t] = "aplay_spawn"
  /\ \E created \in BOOLEAN :
       IF created
       THEN /\ playing' = playing \cup {t}
            /\ Goto(t, "aplay_wait")
            /\ UNCHANGED handling
       ELSE /\ Goto(t, IF t = "mqtt" THEN "messages" ELSE "sleep")
            /\ handling' = IF t = "mqtt" THEN << >> ELSE handling
            /\ UNCHANGED playing
  /\ UNCHANGED <<nav_vars, mqtt_client, exc, connected, subscribed, inbox, cache,
                 event, last, incs>>

\* Lines 177-181: the subprocess exited; either return code is only logged.
\* The caller returns: mqtt_listener to its message loop, gpi_listener to
\* the sleep of line 86.
AplayExit(t) ==
  /\ Alive /\ pc[t] = "aplay_wait"
  /\ playing' = playing \ {t}
  /\ Goto(t, IF t = "mqtt" THEN "messages" ELSE "sleep")
  /\ handling' = IF t = "mqtt" THEN << >> ELSE handling
  /\ UNCHANGED <<nav_vars, mqtt_client, exc, connected, subscribed, inbox, cache,
                 event, last, incs>>

\* --- gpi_listener
\* Tasks first run in the order main() created them.
AtPoll ==
  /\ Alive /\ pc["gpi"] \in {"created", "sleep"}
  /\ pc["mqtt"] # "created"

\* Lines 77, 86: the line reads high.
GpiPollReleased ==
  /\ AtPoll
  /\ Goto("gpi", "sleep")
  /\ UNCHANGED <<nav_vars, mqtt_client, exc, connected, subscribed, inbox, handling,
                 playing, cache, event, last, incs>>

\* Lines 77-83: the line reads low; get_current, then await publish.
GpiPollPressed ==
  /\ AtPoll
  /\ LET r == get_current(script_list, current_position) IN
       IF r.exc # "" THEN Raise("gpi", r.exc)
       ELSE IF mqtt_client = "None" THEN Raise("gpi", "AttributeError")
       ELSE Goto("gpi", "publishing") /\ UNCHANGED exc
  /\ UNCHANGED <<nav_vars, mqtt_client, connected, subscribed, inbox, handling,
                 playing, cache, event, last, incs>>

\* Lines 83-84: the publication went out; the broker delivers it back
\* through the prefix/# subscription. Then await aplay's creation.
GpiPublishOk ==
  /\ Alive /\ pc["gpi"] = "publishing" /\ connected
  /\ IF subscribed
     THEN Len(inbox) < MaxQueue /\ inbox' = Append(inbox, ButtonPressed)
     ELSE UNCHANGED inbox
  /\ Goto("gpi", "aplay_spawn")
  /\ UNCHANGED <<nav_vars, mqtt_client, exc, connected, subscribed, handling,
                 playing, cache, event, last, incs>>

\* Line 83: publish raises MqttError on a lost transport, outside any try.
GpiPublishError ==
  /\ Alive /\ pc["gpi"] = "publishing" /\ ~connected
  /\ Raise("gpi", "MqttError")
  /\ UNCHANGED <<nav_vars, mqtt_client, connected, subscribed, inbox, handling,
                 playing, cache, event, last, incs>>

\* --- clock_worker (lines 114-120)
ClockTick ==
  /\ Alive /\ pc["clock"] \in {"created", "wake"}
  /\ pc["gpi"] # "created"
  /\ Goto("clock", "sleep")
  /\ UNCHANGED <<nav_vars, mqtt_client, exc, connected, subscribed, inbox, handling,
                 playing, cache, event, last, incs>>

ClockWake ==
  /\ Alive /\ pc["clock"] = "sleep"
  /\ Goto("clock", "wake")
  /\ UNCHANGED <<nav_vars, mqtt_client, exc, connected, subscribed, inbox, handling,
                 playing, cache, event, last, incs>>

TaskGroupAbort_spares_clock ==
  /\ \E t \in Tasks : pc[t] = "failed"
  /\ \E t \in Tasks \ {"clock"} : pc[t] \notin {"failed", "cancelled"}
  /\ pc' = [t \in Tasks |-> IF pc[t] = "failed" \/ t = "clock" THEN pc[t] ELSE "cancelled"]
  /\ connected' = FALSE
  /\ subscribed' = FALSE
  /\ UNCHANGED <<nav_vars, mqtt_client, exc, inbox, handling, playing, cache,
                 event, last, incs>>

\* --- main (lines 186-195): the TaskGroup cancels the remaining tasks as
\* soon as one of them has ended with an exception.
TaskGroupAbort ==
  /\ \E t \in Tasks : pc[t] = "failed"
  /\ \E t \in Tasks : pc[t] \notin {"failed", "cancelled"}
  /\ pc' = [t \in Tasks |-> IF pc[t] = "failed" THEN "failed" ELSE "cancelled"]
  /\ connected' = FALSE
  /\ subscribed' = FALSE
  /\ UNCHANGED <<nav_vars, mqtt_client, exc, inbox, handling, playing, cache,
                 event, last, incs>>

Next ==
  \/ \E m \in BusMessages : BrokerPublish(m)
  \/ TransportError
  \/ MqttStart
  \/ MqttConnectOk
  \/ MqttConnectError
  \/ MqttSubscribeOk
  \/ MqttSubscribeError
  \/ MqttDecodeError
  \/ MqttSay
  \/ MqttVolume
  \/ MqttAmixerSpawn
  \/ MqttAmixerExit
  \/ MqttPlay
  \/ MqttScripts
  \/ MqttIgnore
  \/ MqttDisconnected
  \/ MqttBackoffDone
  \/ \E t \in {"mqtt", "gpi"} : AplaySpawn(t)
  \/ \E t \in {"mqtt", "gpi"} : AplayExit(t)
  \/ GpiPollReleased
  \/ GpiPollPressed
  \/ GpiPublishOk
  \/ GpiPublishError
  \/ ClockTick
  \/ ClockWake
  \/ TaskGroupAbort

Spec == Init /\ [][Next]_vars

\* The event loop runs the TaskGroup's done-callback of a task that ended
\* with an exception.
FairSpec == Spec /\ WF_vars(TaskGroupAbort)

\* ------------------------------------------------------- task properties
\* C1: at most one aplay subprocess is in flight at any instant, across the
\* bus listener's say/play playback and the button watcher's beep.
C1_AtMostOnePlayback == Cardinality(playing) <= 1

\* C3: after a transport error in the message loop, when the wait of
\* `interval` is over the listener reconnects: it is next found connecting
\* (from where it subscribes again), unless it was cancelled.
C3_ReconnectAfterBackoff ==
  [][(pc["mqtt"] = "backoff" /\ pc'["mqtt"] # "backoff")
       => pc'["mqtt"] \in {"connecting", "cancelled"}]_vars

\* C4: taking a say, volume, play or scripts command off the bus, whatever
\* its payload, never ends the bus listener: the failure stays inside the
\* command's handling and the listener goes on.
C4_CommandFailureIsolated ==
  [][(/\ pc["mqtt"] = "messages" /\ inbox # << >>
      /\ Head(inbox).suffix \in {"say", "volume", "play", "scripts"}
      /\ inbox' = Tail(inbox))
       => pc'["mqtt"] # "failed"]_vars

\* C5: no task ever ends because of a bus transport error (MqttError).
C5_TransportErrorNeverFatal == \A t \in Tasks : exc[t] # "MqttError"

Taking == inbox # << >> /\ inbox' = Tail(inbox)
InHandler == pc["mqtt"] \in {"aplay_spawn", "aplay_wait", "amixer_spawn", "amixer_wait"}
Ended == \A t \in Tasks : pc[t] \in {"failed", "cancelled"}

C13_PressPublishesAndBeeps ==
  [][/\ ((pc["gpi"] \in {"created", "sleep"}
            /\ pc'["gpi"] \notin {"created", "sleep", "cancelled"})
          => pc'["gpi"] = "publishing")
     /\ ((pc["gpi"] = "publishing" /\ pc'["gpi"] # "publishing")
          => pc'["gpi"] \in {"aplay_spawn", "cancelled"})]_vars

\* C14: a say whose text has a cache file does not synthesize: it leaves the
\* cache as it is and goes on to play that file; synthesis runs only for a
\* text with no cache file.
C14_WarmCacheIdempotent ==
  [][(Taking /\ Head(inbox).utf8 /\ Head(inbox).suffix = "say") =>
       /\ (Head(inbox).payload \in cache =>
             /\ event' = "say_hit"
             /\ cache' = cache
             /\ handling' = <<Head(inbox)>>
             /\ pc'["mqtt"] = "aplay_spawn")
       /\ (event' \in {"say_synth", "say_error"} => Head(inbox).payload \notin cache)]_vars

\* C14 witness: a say served from the cache is playing its file.
C14_Witness ==
  /\ event = "say_hit"
  /\ handling # << >> /\ handling[1].suffix = "say" /\ handling[1].payload \in cache
  /\ "mqtt" \in playing

\* C15: once a task has ended with an unhandled exception no other task
\* runs on: the only step possible is the one that cancels all the others,
\* and it is possible until they are cancelled.
C15_FailFast ==
  /\ [][(\E t \in Tasks : pc[t] = "failed") => Ended']_vars
  /\ [](((\E t \in Tasks : pc[t] = "failed") /\ ~Ended) => ENABLED TaskGroupAbort)

\* C15, as a liveness property of FairSpec: a task ending with an exception
\* leads to all tasks having ended.
C15_EventuallyCancelled == (\E t \in Tasks : pc[t] = "failed") ~> Ended

\* C15 witness: the button watcher failed and the other two tasks were
\* cancelled.
C15_Witness ==
  /\ pc["gpi"] = "failed"
  /\ pc["mqtt"] = "cancelled" /\ pc["clock"] = "cancelled"

\* C16: a message whose topic suffix is none of say, volume, play, scripts
\* invokes no handler, starts no playback or mixer subprocess and leaves
\* script_list, current_position and favorite_dict unchanged.
C16_UnrecognizedIgnored ==
  [][(Taking /\ Head(inbox).suffix \notin {"say", "volume", "play", "scripts"})
       => (/\ script_list' = script_list
           /\ current_position' = current_position
           /\ favorite_dict' = favorite_dict
           /\ event' = "none"
           /\ handling' = << >> /\ ~InHandler'
           /\ playing' = playing
           /\ cache' = cache)]_vars

\* C16 witness: the butler's own "button pressed" publication came back
\* and was ignored while a script list is set.
C16_Witness ==
  /\ event = "none"
  /\ pc["gpi"] \in {"aplay_spawn", "aplay_wait"}
  /\ inbox = << >>
  /\ script_list = PyVal("list", <<"a">>) /\ current_position = Some(0)

\* C18: a say whose synthesis fails leaves no cache file for its text.
C18_FailedSynthesisLeavesNoEntry ==
  [][(Taking /\ Head(inbox).suffix = "say" /\ event' = "say_error")
       => Head(inbox).payload \notin cache']_vars

\* C19: get_current never raises, so a button press never ends the button
\* watcher with an exception from indexing script_list.
C19_GetCurrentNeverRaises ==
  exc["gpi"] \notin {"IndexError", "TypeError", "KeyError"}

\* C20: the button watcher never reaches its publish with mqtt_client still
\* None.
C20_ClientSetBeforePublish == exc["gpi"] # "AttributeError"

\* ------------------------------------------------ navigator properties
IsList == script_list.kind = "list"
N == Len(script_list.items)
InRange == ~current_position.none /\ current_position.val \in 0 .. N - 1

\* C2: whenever script_list is a non-empty list current_position is an index
\* of it, and whenever it is an empty list current_position is None.
C2_NavigationInvariant ==
  IsList => IF N > 0 THEN InRange ELSE current_position = None

\* C6: get_favorite on a slot whose stored index is at or beyond the end of
\* the current list returns None without raising.
C6_StaleFavoriteReturnsNone ==
  (/\ last.op = "get_favorite"
   /\ IsList
   /\ last.index \in DOMAIN favorite_dict
   /\ favorite_dict[last.index] >= N)
  => (last.exc = "" /\ last.ret = << >>)

\* C7: on an empty script list inc_current and dec_current do not raise and
\* leave script_list and current_position as they were.
C7_EmptyListNoOp ==
  [][(script_list = EmptyList /\ last'.op \in {"inc_current", "dec_current"})
       => (last'.exc = "" /\ script_list' = script_list
           /\ current_position' = current_position)]_vars

\* C8: set_favorite records the current position under the slot whenever a
\* current position is set (position 0 included), and changes nothing when
\* there is none.
C8_SetFavoriteRecords ==
  [][last'.op = "set_favorite"
       => IF current_position.none THEN favorite_dict' = favorite_dict
          ELSE /\ last'.index \in DOMAIN favorite_dict'
               /\ favorite_dict'[last'.index] = current_position.val
               /\ \A k \in DOMAIN favorite_dict \ {last'.index} :
                    k \in DOMAIN favorite_dict' /\ favorite_dict'[k] = favorite_dict[k]]_vars

\* C9: after set_scripts of an array of N >= 1 strings followed by k calls
\* of inc_current, current_position is k mod N and get_current returns that
\* element: the first element for k = 0 and again for k = N.
C9_IncrementCycle ==
  incs >= 0 =>
    /\ IsList /\ N >= 1
    /\ current_position = Some(incs % N)
    /\ get_current(script_list, current_position)
         = [exc |-> "", ret |-> <<script_list.items[(incs % N) + 1]>>]
    /\ (last.op = "get_current"
          => last.exc = "" /\ last.ret = <<script_list.items[(incs % N) + 1]>>)

\* C9 witness: three inc_current calls after set_scripts of a three-element
\* array, then get_current returning the first element.
C9_Witness ==
  /\ incs = 3 /\ N = 3
  /\ last.op = "get_current" /\ last.ret = <<script_list.items[1]>>

\* C10: on a list of length N >= 1 at any position p in [0, N), dec_current
\* undoes inc_current and inc_current undoes dec_current, and dec_current
\* from position 0 yields N - 1.
C10_DecInvertsInc ==
  (IsList /\ N >= 1 /\ InRange) =>
    LET i == inc_current(script_list, current_position)
        d == dec_current(script_list, current_position)
    IN  /\ i.exc = "" /\ d.exc = ""
        /\ dec_current(script_list, i.current_position)
             = [exc |-> "", current_position |-> current_position]
        /\ inc_current(script_list, d.current_position)
             = [exc |-> "", current_position |-> current_position]
        /\ (current_position.val = 0 => d.current_position = Some(N - 1))

\* C10 witness: dec_current has just wrapped from position 0 to the last
\* position of a three-element list.
C10_Witness ==
  /\ last.op = "dec_current" /\ last.exc = ""
  /\ IsList /\ N = 3 /\ current_position = Some(2) /\ incs = -1

\* C17: set_scripts either takes its error path and leaves script_list and
\* current_position as they were, or succeeds and script_list is a list.
C17_SetScriptsAllOrNothing ==
  [][last'.op = "set_scripts"
       => IF last'.exc = "logged"
          THEN script_list' = script_list /\ current_position' = current_position
          ELSE script_list'.kind = "list"]_vars

====
